---------------------------- MODULE Spec2Model ----------------------------
(***************************************************************************)
(* Model of the Google Sheets -> PostgreSQL import pipeline of             *)
(* commodities-compass: backend/app/services/data_import.py, driven by the *)
(* catalog of backend/app/core/excel_mappings.py and writing the tables of *)
(* backend/app/models/trading.py through one SQLAlchemy AsyncSession.      *)
(***************************************************************************)
EXTENDS Integers, Sequences, FiniteSets, TLC

(***************************************************************************)
(* Python values.  A str is a sequence of one-character strings; the other *)
(* values are records whose single field name is the type, so that values  *)
(* of different types are comparable and never equal.                      *)
(***************************************************************************)
None == [none |-> TRUE]
NaT == [nat |-> TRUE]
Raised == [raised |-> TRUE]
Str(s) == [str |-> s]
IsStr(v) == DOMAIN v = {"str"}
Datetime(s) == [dt |-> s]
Dec(sg, c, e) == [dec |-> [sign |-> sg, coef |-> c, exp |-> e]]
DecNaN == [dec |-> [nan |-> TRUE]]
DecInf(sg) == [dec |-> [inf |-> sg]]
IsDec(v) == DOMAIN v = {"dec"}
PyInt(n) == [int |-> n]
IsInt(v) == DOMAIN v = {"int"}
(* A float is kept as its repr, the text str() gives for it. *)
PyFloat(s) == [float |-> s]
IsFloat(v) == DOMAIN v = {"float"}
FloatNaN == PyFloat(<<"n", "a", "n">>)
IsDatetime(v) == DOMAIN v = {"dt"}
(* pd.isna on a scalar *)
isna(v) == v \in {None, NaT, FloatNaN, DecNaN}

(***************************************************************************)
(* str methods used by the transforms.                                     *)
(***************************************************************************)
Digits == <<"0", "1", "2", "3", "4", "5", "6", "7", "8", "9">>
IsDigit(c) == \E k \in 1..10 : Digits[k] = c
DigitVal(c) == (CHOOSE k \in 1..10 : Digits[k] = c) - 1
IsSpace(c) == c \in {" ", "\t", "\n"}

Lower(c) ==
    CASE c = "I" -> "i" [] c = "N" -> "n" [] c = "F" -> "f" [] c = "T" -> "t"
      [] c = "Y" -> "y" [] c = "A" -> "a" [] c = "S" -> "s" [] c = "E" -> "e"
      [] OTHER -> c
LowerStr(s) == [k \in 1..Len(s) |-> Lower(s[k])]

EndsWith(s, c) == Len(s) > 0 /\ s[Len(s)] = c
Contains(s, c) == \E k \in 1..Len(s) : s[k] = c

RECURSIVE RStrip(_, _)
RStrip(s, c) ==
    IF Len(s) > 0 /\ s[Len(s)] = c THEN RStrip(SubSeq(s, 1, Len(s) - 1), c) ELSE s

RECURSIVE Replace(_, _)
Replace(s, c) ==
    IF s = <<>> THEN <<>>
    ELSE IF s[1] = c THEN Replace(Tail(s), c)
    ELSE <<s[1]>> \o Replace(Tail(s), c)

RECURSIVE LStripSpace(_)
LStripSpace(s) ==
    IF Len(s) > 0 /\ IsSpace(s[1]) THEN LStripSpace(Tail(s)) ELSE s
RECURSIVE RStripSpace(_)
RStripSpace(s) ==
    IF Len(s) > 0 /\ IsSpace(s[Len(s)])
    THEN RStripSpace(SubSeq(s, 1, Len(s) - 1)) ELSE s
Strip(s) == RStripSpace(LStripSpace(s))

AllDigits(s) == \A k \in 1..Len(s) : IsDigit(s[k])
RECURSIVE NatStr(_)
NatStr(n) == IF n < 10 THEN <<Digits[n + 1]>>
             ELSE NatStr(n \div 10) \o <<Digits[(n % 10) + 1]>>
(* str() of an int or a float *)
StrOf(v) == IF IsFloat(v) THEN v.float
            ELSE IF v.int < 0 THEN <<"-">> \o NatStr(0 - v.int)
            ELSE NatStr(v.int)
RECURSIVE IntOf(_)
IntOf(s) == IF s = <<>> THEN 0
            ELSE 10 * IntOf(SubSeq(s, 1, Len(s) - 1)) + DigitVal(s[Len(s)])

(***************************************************************************)
(* decimal.Decimal(str): the constructor's grammar                         *)
(*   [sign] ( digits [. digits] [E [sign] digits] | Inf[inity] | [s]NaN[d])*)
(* matched case-insensitively on the stripped text with '_' removed.       *)
(* The result is Raised when the text does not match (InvalidOperation).   *)
(***************************************************************************)
FirstIndex(s, cs) ==
    IF \E k \in 1..Len(s) : s[k] \in cs
    THEN CHOOSE k \in 1..Len(s) : s[k] \in cs /\ \A j \in 1..(k - 1) : s[j] \notin cs
    ELSE 0

DecimalNumber(sg, body) ==
    LET ePos == FirstIndex(body, {"e"})
        mant == IF ePos = 0 THEN body ELSE SubSeq(body, 1, ePos - 1)
        expo == IF ePos = 0 THEN <<>> ELSE SubSeq(body, ePos + 1, Len(body))
        eSgn == IF Len(expo) > 0 /\ expo[1] \in {"-", "+"} THEN expo[1] ELSE "+"
        eDig == IF Len(expo) > 0 /\ expo[1] \in {"-", "+"} THEN Tail(expo) ELSE expo
        pPos == FirstIndex(mant, {"."})
        ip == IF pPos = 0 THEN mant ELSE SubSeq(mant, 1, pPos - 1)
        fp == IF pPos = 0 THEN <<>> ELSE SubSeq(mant, pPos + 1, Len(mant))
        expOk == ePos = 0 \/ (Len(eDig) > 0 /\ AllDigits(eDig))
        mantOk == AllDigits(ip) /\ AllDigits(fp) /\ Len(ip) + Len(fp) > 0
        e == IF ePos = 0 THEN 0
             ELSE IF eSgn = "-" THEN 0 - IntOf(eDig) ELSE IntOf(eDig)
    IN  IF mantOk /\ expOk THEN Dec(sg, IntOf(ip \o fp), e - Len(fp)) ELSE Raised

DecimalOf(s) ==
    LET t == LowerStr(Replace(Strip(s), "_"))
        signed == Len(t) > 0 /\ t[1] \in {"-", "+"}
        sg == IF signed /\ t[1] = "-" THEN 1 ELSE 0
        body == IF signed THEN Tail(t) ELSE t
        nanBody == IF Len(body) > 0 /\ body[1] = "s" THEN Tail(body) ELSE body
    IN  IF body = <<"i", "n", "f">>
           \/ body = <<"i", "n", "f", "i", "n", "i", "t", "y">> THEN DecInf(sg)
        ELSE IF Len(nanBody) >= 3 /\ SubSeq(nanBody, 1, 3) = <<"n", "a", "n">>
                /\ AllDigits(SubSeq(nanBody, 4, Len(nanBody))) THEN DecNaN
        ELSE DecimalNumber(sg, body)

(* Decimal / 100 under the default context: exact, with the exponent as     *)
(* close to the dividend's as the quotient allows.                          *)
DecimalDiv100(d) ==
    IF d = Raised THEN Raised
    ELSE IF "coef" \notin DOMAIN d.dec THEN d
    ELSE LET c == d.dec.coef
             e == d.dec.exp
         IN  IF c % 100 = 0 THEN Dec(d.dec.sign, c \div 100, e)
             ELSE IF c % 10 = 0 THEN Dec(d.dec.sign, c \div 10, e - 1)
             ELSE Dec(d.dec.sign, c, e - 2)

(* A try block without its except clause. *)
OrRaise(v) == v
OrNone(v) == IF v = Raised THEN None ELSE v

(***************************************************************************)
(* pandas.to_datetime on a str: the strings pandas reads as missing give   *)
(* NaT, the date texts of ParsableDates give a timestamp, any other text   *)
(* raises.                                                                 *)
(***************************************************************************)
GoodDate == <<"2", "0", "2", "4", "-", "0", "1", "-", "0", "5">>
OtherDate == <<"2", "0", "2", "4", "-", "0", "1", "-", "0", "8">>
BadDate == <<"n", "/", "a">>
ParsableDates == {GoodDate, OtherDate}
NatStrings == {<<>>, <<"N", "a", "T">>, <<"n", "a", "t">>, <<"n", "a", "n">>,
               <<"N", "a", "N">>}
to_datetime(s) ==
    IF s \in NatStrings THEN NaT
    ELSE IF s \in ParsableDates THEN Datetime(s)
    ELSE Raised

(***************************************************************************)
(* DataTransforms                                                          *)
(***************************************************************************)
(* pd.to_datetime on a value that is neither missing nor a datetime: a str *)
(* is parsed, a number is read as nanoseconds since the epoch, any other   *)
(* type raises TypeError.                                                  *)
to_datetime_any(value) ==
    IF IsStr(value) THEN to_datetime(value.str)
    ELSE IF IsInt(value) \/ IsFloat(value) THEN Datetime(<<"epoch", value>>)
    ELSE Raised

parse_datetime(value) ==
    IF isna(value) THEN None
    ELSE IF IsDatetime(value) THEN value
    ELSE OrNone(to_datetime_any(value))

(* Decimal(str(value)): str() of a Decimal reads back as the same Decimal, *)
(* str() of a datetime is no number.                                       *)
DecimalOfStr(value) ==
    IF IsStr(value) THEN DecimalOf(value.str)
    ELSE IF IsDec(value) THEN value
    ELSE IF IsInt(value) \/ IsFloat(value) THEN DecimalOf(StrOf(value))
    ELSE Raised

parse_decimal(value) ==
    IF isna(value) \/ value = Str(<<>>) THEN None
    ELSE IF IsStr(value) /\ EndsWith(value.str, "%")
         THEN OrNone(DecimalDiv100(DecimalOf(RStrip(value.str, "%"))))
    ELSE IF IsStr(value) /\ Contains(value.str, ",")
         THEN OrNone(DecimalOf(Replace(value.str, ",")))
    ELSE OrNone(DecimalOfStr(value))

parse_decimal_from_string(value) ==
    IF isna(value) \/ value = Str(<<>>) THEN None
    ELSE IF IsInt(value) \/ IsFloat(value) THEN DecimalOfStr(value)
    ELSE IF ~IsStr(value) THEN None
    ELSE IF EndsWith(value.str, "%")
         THEN OrNone(DecimalDiv100(DecimalOf(RStrip(value.str, "%"))))
    ELSE OrNone(DecimalOf(Strip(Replace(value.str, "="))))

(***************************************************************************)
(* parse_integer: int(float(str(value))) after removing ',' separators.    *)
(* float() reads the Decimal grammar less the signalling NaN, with '_'     *)
(* only between digits; int() truncates toward zero and raises on nan and  *)
(* inf.                                                                    *)
(***************************************************************************)
RECURSIVE Pow10(_)
Pow10(n) == IF n <= 0 THEN 1 ELSE 10 * Pow10(n - 1)

FloatOf(s) ==
    LET t == Strip(s)
        underscoresOk ==
            \A k \in 1..Len(t) :
                t[k] = "_" => /\ 1 < k /\ k < Len(t)
                              /\ IsDigit(t[k - 1]) /\ IsDigit(t[k + 1])
        low == LowerStr(t)
        signalling == \E k \in 1..Len(low) : low[k] = "s"
    IN  IF underscoresOk /\ ~signalling THEN DecimalOf(s) ELSE Raised

(* float(str(value)) *)
FloatOfStr(value) ==
    IF IsStr(value) THEN FloatOf(value.str)
    ELSE IF IsDec(value) THEN value
    ELSE IF IsInt(value) \/ IsFloat(value) THEN FloatOf(StrOf(value))
    ELSE Raised

Truncate(d) ==
    LET mag == IF d.dec.exp >= 0 THEN d.dec.coef * Pow10(d.dec.exp)
               ELSE d.dec.coef \div Pow10(0 - d.dec.exp)
    IN  PyInt(IF d.dec.sign = 1 THEN 0 - mag ELSE mag)

IntOfFloat(f) ==
    IF f = Raised \/ "coef" \notin DOMAIN f.dec THEN None ELSE Truncate(f)

parse_integer(value) ==
    IF isna(value) \/ value = Str(<<>>) THEN None
    ELSE IF IsStr(value) /\ Contains(value.str, ",")
         THEN IntOfFloat(FloatOf(Replace(value.str, ",")))
    ELSE IntOfFloat(FloatOfStr(value))

(* The functions of the DataTransforms class. *)
DataTransforms ==
    {"parse_datetime", "parse_decimal", "parse_decimal_from_string",
     "parse_integer"}

(* A registry in which no name resolves. *)
transform_func_missing(name, raw_value) == Raised

(* getattr(self.transforms, name)(raw_value) *)
transform_func(name, raw_value) ==
    CASE name = "parse_datetime" -> parse_datetime(raw_value)
      [] name = "parse_decimal" -> parse_decimal(raw_value)
      [] name = "parse_decimal_from_string" -> parse_decimal_from_string(raw_value)
      [] name = "parse_integer" -> parse_integer(raw_value)
      [] OTHER -> Raised

(***************************************************************************)
(* EXCEL_MAPPINGS: the catalog, in its declared (dict) order.               *)
(***************************************************************************)
EXCEL_MAPPINGS ==
    <<"TECHNICALS", "INDICATOR", "BIBLIO_ALL", "METEO_ALL", "CONFIG", "BEST PERF",
      "PODCAST">>

sheet_name(mapping_key) == mapping_key

table_model(mapping_key) ==
    CASE mapping_key = "TECHNICALS" ->
            "Technicals"
      [] mapping_key = "INDICATOR" ->
            "Indicator"
      [] mapping_key = "BIBLIO_ALL" ->
            "MarketResearch"
      [] mapping_key = "METEO_ALL" ->
            "WeatherData"
      [] mapping_key = "CONFIG" ->
            "Config"
      [] mapping_key = "BEST PERF" ->
            "PerformanceTracking"
      [] mapping_key = "PODCAST" ->
            "Podcast"

column_mapping(mapping_key) ==
    CASE mapping_key = "TECHNICALS" ->
            <<<<"Timestamp", "timestamp">>, <<"CLOSE", "close">>,
              <<"HIGH", "high">>, <<"LOW", "low">>, <<"VOLUME", "volume">>,
              <<"OPEN INTEREST", "open_interest">>,
              <<"IMPLIED VOLATILITY", "implied_volatility">>,
              <<"STOCK US", "stock_us">>, <<"COM NET US", "com_net_us">>,
              <<"R3", "r3">>, <<"R2", "r2">>, <<"R1", "r1">>,
              <<"Pivot", "pivot">>, <<"S1", "s1">>, <<"S2", "s2">>,
              <<"S3", "s3">>, <<"EMA12", "ema12">>, <<"EMA26", "ema26">>,
              <<"MACD", "macd">>, <<"SIGNAL", "signal">>,
              <<"RSI 14D", "rsi_14d">>, <<"%D", "d">>,
              <<"ATR(14d)", "atr_14d">>,
              <<"Limites de Bolinger", "bollinger_width">>,
              <<"Gain", "gain_14d">>, <<"Perte", "loss_14d">>,
              <<"Gain(14d)", "gain_14d">>, <<"Perte(14d)", "loss_14d">>,
              <<"RS", "rs">>, <<"RSI(14d)", "rsi_14d">>,
              <<"Stochastic %K (14)", "stochastic_k_14">>,
              <<"Stochastic %D (14)", "stochastic_d_14">>,
              <<"Close/Pivot", "close_pivot_ratio">>,
              <<"Volatility", "volatility">>,
              <<"Volume/OI", "volume_oi_ratio">>, <<"ATR", "atr">>,
              <<"BOLLINGER", "bollinger">>,
              <<"BANDE SUP", "bollinger_upper">>,
              <<"BANDE INF", "bollinger_lower">>,
              <<"MOYENNE DECALER", "displaced_average">>,
              <<"DECISION", "decision">>, <<"CONFIANCE", "confidence">>,
              <<"DIRECTION", "direction">>, <<"SCORE", "score">>,
              <<"CONCLUSION", "conclusion">>, <<"ROW", "row_number">>>>
      [] mapping_key = "INDICATOR" ->
            <<<<"DATE", "date">>, <<"RSI SCORE", "rsi_score">>,
              <<"MACD SCORE", "macd_score">>,
              <<"STOCHASTIC SCORE", "stochastic_score">>,
              <<"ATR SCORE", "atr_score">>,
              <<"# CLOSE/PIVOT", "close_pivot">>,
              <<"VOLUME/OI", "volume_oi">>, <<"RSI NORM", "rsi_norm">>,
              <<"MACD NORM", "macd_norm">>,
              <<"STOCH %K NORM", "stoch_k_norm">>, <<"ATR NORM", "atr_norm">>,
              <<"CLOSE/PIVOT NORM", "close_pivot_norm">>,
              <<"VOL/OI NORM", "vol_oi_norm">>, <<"INDICATOR", "indicator">>,
              <<"MOMENTUM", "momentum">>,
              <<"MACROECO BONUS", "macroeco_bonus">>,
              <<"FINAL INDICATOR", "final_indicator">>,
              <<"CONCLUSION", "conclusion">>,
              <<"MACROECO SCORE", "macroeco_score">>, <<"ECO", "eco">>,
              <<"FINAL INDICATOR DERNIER", "final_indicator_previous">>,
              <<"DERNIER MACROECO", "previous_macroeco">>,
              <<"DERNIER RSI", "previous_rsi">>,
              <<"DERNIER MACD", "previous_macd">>,
              <<"DERNIER %K", "previous_k">>,
              <<"DERNIER ATR", "previous_atr">>,
              <<"DERNIER CLOSE/PIVOT", "previous_close_pivot">>,
              <<"DERNIER VOL/OI", "previous_vol_oi">>,
              <<"DERNIERE CONCLUSION", "previous_conclusion">>>>
      [] mapping_key = "BIBLIO_ALL" ->
            <<<<"DATE", "date">>, <<"AUTEUR", "author">>,
              <<"RESUME", "summary">>, <<"MOTS-CLE", "keywords">>,
              <<"IMPACT SYNTHETIQUES", "impact_synthesis">>,
              <<"DATE TEXT", "date_text">>>>
      [] mapping_key = "METEO_ALL" ->
            <<<<"DATE", "date">>, <<"TEXTE", "text">>,
              <<"RESUME", "summary">>, <<"MOTS-CLE", "keywords">>,
              <<"IMPACT SYNTHETIQUES", "impact_synthesis">>>>
      [] mapping_key = "CONFIG" ->
            <<<<"PARAMETRE", "parameter">>, <<"INDICATOR", "indicator">>,
              <<"VAL MIN", "val_min">>, <<"VAL MAX", "val_max">>,
              <<"PAS", "step">>, <<"ACTUEL", "current">>,
              <<"NEW CHAMPION", "new_champion">>, <<"TEST", "test">>>>
      [] mapping_key = "BEST PERF" ->
            <<<<"PERFORMANCE", "performance">>, <<"ACTUELLE", "current">>,
              <<"NEW", "new">>, <<"LIMITE", "limit">>>>
      [] mapping_key = "PODCAST" ->
            <<<<"DATE", "date">>, <<"CONCLUSION", "conclusion">>,
              <<"METEO DATE", "meteo_date">>,
              <<"METEO CONCLUSION", "meteo_conclusion">>,
              <<"PRESS DATE", "press_date">>,
              <<"PRESS AUTEUR", "press_author">>,
              <<"PRESS TEXT", "press_text">>, <<"POSITION", "position">>,
              <<"DIALOGUE", "dialogue">>>>

transforms(mapping_key) ==
    CASE mapping_key = "TECHNICALS" ->
            {<<"timestamp", "parse_datetime">>, <<"close", "parse_decimal">>,
             <<"high", "parse_decimal">>, <<"low", "parse_decimal">>,
             <<"atr_14d", "parse_decimal_from_string">>,
             <<"atr", "parse_decimal_from_string">>,
             <<"gain_14d", "parse_decimal_from_string">>,
             <<"loss_14d", "parse_decimal_from_string">>,
             <<"close_pivot_ratio", "parse_decimal_from_string">>,
             <<"displaced_average", "parse_decimal_from_string">>}
      [] mapping_key = "INDICATOR" ->
            {<<"date", "parse_datetime">>}
      [] mapping_key = "BIBLIO_ALL" ->
            {<<"date", "parse_datetime">>}
      [] mapping_key = "METEO_ALL" ->
            {<<"date", "parse_datetime">>}
      [] mapping_key = "CONFIG" ->
            {}
      [] mapping_key = "BEST PERF" ->
            {}
      [] mapping_key = "PODCAST" ->
            {<<"date", "parse_datetime">>, <<"meteo_date", "parse_datetime">>,
             <<"press_date", "parse_datetime">>}

(***************************************************************************)
(* The table models: declared attributes, and the columns declared         *)
(* nullable=False that have neither a default nor a server default nor are *)
(* the generated primary key.                                              *)
(***************************************************************************)
ModelFields(model) ==
    CASE model = "Technicals" ->
            {"id", "timestamp", "commodity_symbol", "close", "high", "low",
             "volume", "open_interest", "implied_volatility", "stock_us",
             "com_net_us", "r3", "r2", "r1", "pivot", "s1", "s2", "s3",
             "ema12", "ema26", "macd", "signal", "rsi_14d", "stochastic_k_14",
             "stochastic_d_14", "atr", "atr_14d", "volatility", "bollinger",
             "bollinger_upper", "bollinger_lower", "bollinger_width",
             "close_pivot_ratio", "volume_oi_ratio", "gain_14d", "loss_14d",
             "rs", "decision", "confidence", "direction", "score",
             "conclusion", "row_number", "created_at", "updated_at"}
      [] model = "Indicator" ->
            {"id", "date", "commodity_symbol", "rsi_score", "macd_score",
             "stochastic_score", "atr_score", "close_pivot", "volume_oi",
             "rsi_norm", "macd_norm", "stoch_k_norm", "atr_norm",
             "close_pivot_norm", "vol_oi_norm", "indicator", "momentum",
             "macroeco_bonus", "final_indicator", "macroeco_score", "eco",
             "final_indicator_previous", "previous_macroeco", "previous_rsi",
             "previous_macd", "previous_k", "previous_atr",
             "previous_close_pivot", "previous_vol_oi", "conclusion",
             "previous_conclusion", "created_at", "updated_at"}
      [] model = "MarketResearch" ->
            {"id", "date", "author", "summary", "keywords",
             "impact_synthesis", "date_text", "created_at", "updated_at"}
      [] model = "WeatherData" ->
            {"id", "date", "text", "summary", "keywords", "impact_synthesis",
             "created_at", "updated_at"}
      [] model = "Config" ->
            {"id", "parameter", "indicator", "val_min", "val_max", "step",
             "current", "new_champion", "test", "created_at", "updated_at"}
      [] model = "PerformanceTracking" ->
            {"id", "performance", "current", "new", "limit", "created_at",
             "updated_at"}
      [] model = "Podcast" ->
            {"id", "date", "conclusion", "meteo_date", "meteo_conclusion",
             "press_date", "press_author", "press_text", "position",
             "dialogue", "created_at", "updated_at"}

NotNullFields(model) ==
    CASE model = "Technicals" ->
            {"timestamp", "close", "high", "low", "volume", "open_interest",
             "r3", "r2", "r1", "pivot", "s1", "s2", "s3", "ema12", "ema26",
             "macd", "bollinger", "bollinger_upper", "bollinger_lower",
             "bollinger_width", "volume_oi_ratio", "row_number"}
      [] model = "Indicator" ->
            {"date", "close_pivot", "close_pivot_norm", "macroeco_bonus",
             "eco"}
      [] model = "MarketResearch" ->
            {"date", "author", "summary", "impact_synthesis", "date_text"}
      [] model = "WeatherData" ->
            {"date", "text", "summary", "keywords", "impact_synthesis"}
      [] model = "Config" ->
            {}
      [] model = "PerformanceTracking" ->
            {"performance", "current", "new", "limit"}
      [] model = "Podcast" ->
            {"date", "conclusion", "meteo_date", "meteo_conclusion",
             "press_date", "press_author", "press_text", "position",
             "dialogue"}


(***************************************************************************)
(* import_sheet, the body of the row loop: one row of the DataFrame to the *)
(* keyword arguments of the table model.  header is the sheet's first row, *)
(* row maps each header to its cell (a str, or None for a missing cell).   *)
(***************************************************************************)
InHeader(excel_col, header) == \E n \in 1..Len(header) : header[n] = excel_col
HasTransform(mapping_key, db_col) ==
    \E p \in transforms(mapping_key) : p[1] = db_col
TransformOf(mapping_key, db_col) ==
    (CHOOSE p \in transforms(mapping_key) : p[1] = db_col)[2]

PercentCleanup(v) ==
    IF IsStr(v) /\ EndsWith(v.str, "%")
    THEN OrNone(DecimalDiv100(DecimalOf(RStrip(v.str, "%"))))
    ELSE v

(* lines 212-218: a missing cell, "" and "nan" become None *)
RawValue(cell) ==
    IF cell = Str(<<>>) \/ cell = Str(<<"n", "a", "n">>) THEN None ELSE cell
(* lines 221-227: the declared transform, if any *)
Transformed(mapping_key, db_col, raw_value) ==
    IF HasTransform(mapping_key, db_col)
    THEN transform_func(TransformOf(mapping_key, db_col), raw_value)
    ELSE raw_value
(* lines 230-242: "" becomes None, a text ending in % becomes a Decimal *)
Cleanup(t) ==
    IF t = Raised THEN Raised
    ELSE IF t = Str(<<>>) THEN None
    ELSE PercentCleanup(t)

transformed_value(mapping_key, db_col, cell) ==
    Cleanup(Transformed(mapping_key, db_col, RawValue(cell)))

(* A mapping loop that keeps the first value written for a db_col. *)
mapped_data_first_wins(mapping_key, header, row) ==
    LET cm == column_mapping(mapping_key)
        present == {n \in 1..Len(cm) : InHeader(cm[n][1], header)}
        first_(f) == CHOOSE n \in present :
                        cm[n][2] = f /\ \A m \in present : cm[m][2] = f => n <= m
    IN  [f \in {cm[n][2] : n \in present} |->
            transformed_value(mapping_key, f, row[cm[first_(f)][1]])]

(* The dict after the mapping loop: later pairs of column_mapping overwrite *)
(* earlier ones that name the same db_col.                                  *)
mapped_data(mapping_key, header, row) ==
    LET cm == column_mapping(mapping_key)
        present == {n \in 1..Len(cm) : InHeader(cm[n][1], header)}
        last(f) == CHOOSE n \in present :
                      cm[n][2] = f /\ \A m \in present : cm[m][2] = f => m <= n
    IN  [f \in {cm[n][2] : n \in present} |->
            transformed_value(mapping_key, f, row[cm[last(f)][1]])]

Put(data, f, v) == [g \in DOMAIN data \cup {f} |-> IF g = f THEN v ELSE data[g]]
(* A default that replaces whatever the source gave. *)
DefaultAlways(data, f, v) == Put(data, f, v)
DefaultIfMissing(data, f, v) ==
    IF f \notin DOMAIN data \/ data[f] = None THEN Put(data, f, v) ELSE data

(* lines 249-253 *)
SymbolDefault(model, data) ==
    IF "commodity_symbol" \in ModelFields(model)
       /\ "commodity_symbol" \notin DOMAIN data
    THEN Put(data, "commodity_symbol", Str(<<"C", "C">>)) ELSE data
(* A row loop without the defaults of the Indicator model. *)
NoDefaults(model, data) == data
(* lines 256-280 *)
IndicatorDefaults(model, data) ==
    IF model = "Indicator"
    THEN DefaultIfMissing(
           DefaultIfMissing(
             DefaultIfMissing(
               DefaultIfMissing(data, "close_pivot", Dec(0, 0, -1)),
               "close_pivot_norm", Dec(0, 0, -1)),
             "macroeco_bonus", Dec(0, 0, -1)),
           "eco", Str(<<>>))
    ELSE data
(* lines 283-285 *)
PerformanceDefaults(model, data) ==
    IF model = "PerformanceTracking"
    THEN DefaultIfMissing(data, "limit", Str(<<>>)) ELSE data

with_defaults(model, data) ==
    PerformanceDefaults(model, IndicatorDefaults(model, SymbolDefault(model, data)))

(* The table model's constructor, called with model_data as its keywords:  *)
(* the declarative constructor raises TypeError for a keyword that is no    *)
(* attribute of the class and checks nothing else.                          *)
Construct(model, model_data) ==
    IF DOMAIN model_data \subseteq ModelFields(model) THEN model_data ELSE Raised

(* lines 208-288: the try block up to the instance; Raised when it raises *)
Build(model, data) ==
    IF \E f \in DOMAIN data : data[f] = Raised THEN Raised
    ELSE Construct(model, with_defaults(model, data))

model_instance(mapping_key, header, row) ==
    Build(table_model(mapping_key), mapped_data(mapping_key, header, row))

(* The INSERT of an instance violates NOT NULL when a required column is    *)
(* unset or None.                                                           *)
ViolatesNotNull(model, instance) ==
    \E f \in NotNullFields(model) : f \notin DOMAIN instance \/ instance[f] = None

(***************************************************************************)
(* Bounds of the checked instances.                                        *)
(***************************************************************************)
NumDomains == 3
MaxRows == 2

Keys == SubSeq(EXCEL_MAPPINGS, 1, NumDomains)
KeySet == {Keys[n] : n \in 1..NumDomains}

(***************************************************************************)
(* The sheets read from the spreadsheet.  A sheet holds the headers of the *)
(* required columns (and of the first mapped column), optionally also the  *)
(* mapped headers whose target is no attribute of the table model; a row   *)
(* is good (every cell readable) or bad (the cell of the first column is   *)
(* not: an unparsable date, or blank).                                     *)
(***************************************************************************)
RECURSIVE SelectHeaders(_, _)
SelectHeaders(cm, fields) ==
    IF cm = <<>> THEN <<>>
    ELSE (IF cm[1][2] \in fields THEN <<cm[1][1]>> ELSE <<>>)
         \o SelectHeaders(Tail(cm), fields)

TargetOf(mapping_key, excel_col) ==
    LET cm == column_mapping(mapping_key)
    IN  cm[CHOOSE n \in 1..Len(cm) : cm[n][1] = excel_col][2]

BaseHeader(mapping_key) ==
    LET cm == column_mapping(mapping_key)
    IN  SelectHeaders(cm, NotNullFields(table_model(mapping_key)) \cup {cm[1][2]})
StrayHeader(mapping_key) ==
    LET cm == column_mapping(mapping_key)
    IN  SelectHeaders(cm, {cm[n][2] : n \in 1..Len(cm)}
                          \ ModelFields(table_model(mapping_key)))
HeaderMenu(mapping_key) ==
    {BaseHeader(mapping_key), BaseHeader(mapping_key) \o StrayHeader(mapping_key)}

IsDateColumn(mapping_key, excel_col) ==
    LET f == TargetOf(mapping_key, excel_col)
    IN  HasTransform(mapping_key, f) /\ TransformOf(mapping_key, f) = "parse_datetime"
GoodRow(mapping_key, header) ==
    [h \in {header[n] : n \in 1..Len(header)} |->
        IF IsDateColumn(mapping_key, h) THEN Str(GoodDate) ELSE Str(<<"7">>)]
BadRow(mapping_key, header) ==
    [h \in {header[n] : n \in 1..Len(header)} |->
        IF h = header[1]
        THEN (IF IsDateColumn(mapping_key, h) THEN Str(BadDate) ELSE Str(<<>>))
        ELSE GoodRow(mapping_key, header)[h]]

RowSeqs(S) == UNION {[1..n -> S] : n \in 0..MaxRows}
NoCells == [header |-> <<>>, rows |-> <<>>, cells |-> FALSE]
SheetMenu(mapping_key) ==
    {NoCells} \cup
    UNION {{[header |-> h, rows |-> r, cells |-> TRUE] :
               r \in RowSeqs({GoodRow(mapping_key, h), BadRow(mapping_key, h)})} :
           h \in HeaderMenu(mapping_key)}

(***************************************************************************)
(* State.                                                                  *)
(*   pc               where the run stands: "list" (import_all_sheets      *)
(*                    about to fetch the sheet list), "loop" (head of the  *)
(*                    loop over the catalog, at entry i), "clear"          *)
(*                    (import_sheet read its sheet, before the delete),    *)
(*                    "rows" (the row loop, at row index), "done",         *)
(*                    "aborted" (the sheet list could not be fetched),     *)
(*                    "validated", "validation_failed" (the run ended with *)
(*                    or without its validation report),                   *)
(*                    "crashed" (the process was killed)                   *)
(*   i                position in the catalog, 1-based                     *)
(*   available_sheets, values, index, stats, results: the locals of        *)
(*                    import_all_sheets and import_sheet                   *)
(*   session          the AsyncSession: whether it accepts statements, the *)
(*                    tables deleted in its open transaction, the pending  *)
(*                    instances                                            *)
(*   table            committed contents of each domain's table            *)
(*   table0           the contents before the first run        (history)   *)
(*   trace            the reads, clears and commits of the run (history)   *)
(*   processed        the row indexes the current row loop visited(history)*)
(*   run, first       the run number and the outcome of the first run      *)
(*   book             the spreadsheet when it is held fixed over the runs, *)
(*                    Unconstrained when any read may return any sheet     *)
(*   validation       the record counts validate_import reports            *)
(*   value, parsed    the argument and the result of a call of one of the  *)
(*                    DataTransforms functions on its own                  *)
(*   model_data       the dict the row loop fills for the row at index,    *)
(*                    followed through one pass of the loop on its own     *)
(***************************************************************************)
VARIABLES pc, i, available_sheets, values, index, stats, results, session,
          table, table0, trace, processed, run, first, book, validation,
          value, parsed, model_data

vars == <<pc, i, available_sheets, values, index, stats, results, session,
          table, table0, trace, processed, run, first, book, validation,
          value, parsed, model_data>>

NoValues == [key |-> "", header |-> <<>>, rows |-> <<>>]
NoStats == [sheet_name |-> "", total_rows |-> 0, imported_rows |-> 0,
            skipped_rows |-> 0, errors |-> <<>>]
NoResult == [absent |-> TRUE]
Error(kind) == [error |-> kind]
IsStats(r) == "total_rows" \in DOMAIN r
IsError(r) == "error" \in DOMAIN r
NewSession == [usable |-> TRUE, deleted |-> {}, new |-> <<>>]
Unconstrained == [any |-> TRUE]
Absent == [absent |-> TRUE]

OldRow(mapping_key) == [id |-> Str(<<"o", "l", "d">>)]
(* The tables before the run: all empty, or all holding an earlier import. *)
PriorTables == {[k \in KeySet |-> <<>>], [k \in KeySet |-> <<OldRow(k)>>]}

(* What the spreadsheet may return. *)
KeyIndex(mapping_key) == CHOOSE n \in 1..NumDomains : Keys[n] = mapping_key
AllowedSheetLists ==
    IF book = Unconstrained THEN SUBSET {sheet_name(k) : k \in KeySet}
    ELSE {{sheet_name(k) : k \in {kk \in KeySet : book[KeyIndex(kk)] # Absent}}}
AllowedValues(mapping_key) ==
    IF book = Unconstrained THEN SheetMenu(mapping_key)
    ELSE {book[KeyIndex(mapping_key)]}

(* The state in which run_google_sheets_import calls import_all_sheets. *)
StartState(p, ii, av, vals, idx, st, res, sess, tr, proc) ==
    /\ p = "list"
    /\ ii = 1
    /\ av = {}
    /\ vals = NoValues
    /\ idx = 0
    /\ st = NoStats
    /\ res = [k \in KeySet |-> NoResult]
    /\ sess = NewSession
    /\ tr = {}
    /\ proc = <<>>

(* Nothing validated yet, no transform called on its own. *)
Unparsed == [f |-> "", out |-> None]
NoData == <<>>
NoCall(vl, v, pd, md) ==
    /\ vl = None
    /\ v = None
    /\ pd = Unparsed
    /\ md = NoData

Init ==
    /\ StartState(pc, i, available_sheets, values, index, stats, results,
                  session, trace, processed)
    /\ table0 \in PriorTables
    /\ table = table0
    /\ run = 1
    /\ first = None
    /\ book = Unconstrained
    /\ NoCall(validation, value, parsed, model_data)

(* A loop that walks the catalog from its last entry to its first. *)
mapping_key_backwards == Keys[NumDomains + 1 - i]
mapping_key == Keys[i]
InLoop == pc = "loop" /\ i <= NumDomains

(***************************************************************************)
(* The session (SQLAlchemy AsyncSession over PostgreSQL).                  *)
(***************************************************************************)
(* A session whose DELETE removes nothing. *)
SessionDeleteNothing(sess, k) == sess
(* execute(delete(table_model)): the DELETE runs in the open transaction.  *)
SessionDelete(sess, k) == [sess EXCEPT !.deleted = @ \cup {k}]
(* add(model_instance): the instance is pending until the next flush.      *)
SessionAdd(sess, k, instance) ==
    [sess EXCEPT !.new = Append(@, [key |-> k, instance |-> instance])]
(* commit() flushes the pending instances; a NOT NULL violation fails it.  *)
FlushFails(sess) ==
    \E n \in 1..Len(sess.new) :
        ViolatesNotNull(table_model(sess.new[n].key), sess.new[n].instance)
RECURSIVE InstancesOf(_, _)
InstancesOf(new, k) ==
    IF new = <<>> THEN <<>>
    ELSE (IF new[1].key = k THEN <<new[1].instance>> ELSE <<>>)
         \o InstancesOf(Tail(new), k)
(* A commit that appends the pending instances to what the table holds. *)
CommittedAppending(sess, tbl) ==
    [k \in KeySet |-> tbl[k] \o InstancesOf(sess.new, k)]
(* The tables after a successful commit of the session's transaction.      *)
Committed(sess, tbl) ==
    [k \in KeySet |->
        (IF k \in sess.deleted THEN <<>> ELSE tbl[k]) \o InstancesOf(sess.new, k)]
(* A failed commit after which the session keeps its transaction. *)
FailedSessionKeepsWork(sess) == sess
(* After a failed flush the transaction is rolled back, the pending         *)
(* instances are expunged, and the session refuses statements until         *)
(* rollback() is called, which import_all_sheets never does.                *)
FailedSession(sess) == [usable |-> FALSE, deleted |-> {}, new |-> <<>>]

(***************************************************************************)
(* import_all_sheets                                                       *)
(***************************************************************************)
ListSheets ==
    /\ pc = "list"
    /\ \E sheets \in AllowedSheetLists : available_sheets' = sheets
    /\ pc' = "loop"
    /\ UNCHANGED <<i, values, index, stats, results, session, table, table0,
                   trace, processed, run, first, book, validation,
                   value, parsed, model_data>>

(* A failed sheet-list request that is reported once per domain. *)
ListSheetsFailsPerDomain ==
    /\ pc = "list"
    /\ pc' = "aborted"
    /\ results' = [k \in KeySet |-> Error("not_found")]
    /\ UNCHANGED <<i, available_sheets, values, index, stats, session, table,
                   table0, trace, processed, run, first, book, validation,
                   value, parsed, model_data>>

ListSheetsFails ==
    /\ pc = "list"
    /\ pc' = "aborted"
    /\ UNCHANGED <<i, available_sheets, values, index, stats, results, session,
                   table, table0, trace, processed, run, first, book, validation,
                   value, parsed, model_data>>

(* results[mapping_key] = ...; the loop moves to the next catalog entry and *)
(* the locals of import_sheet are gone.                                     *)
NextEntry(ii) == ii + 1
Record(k, result) ==
    /\ results' = [results EXCEPT ![k] = result]
    /\ i' = NextEntry(i)
    /\ pc' = "loop"
    /\ values' = NoValues
    /\ index' = 0
    /\ stats' = NoStats
    /\ processed' = <<>>

(* A loop that a missing sheet ends. *)
SheetNotFoundEndsLoop ==
    /\ InLoop
    /\ sheet_name(mapping_key) \notin available_sheets
    /\ results' = [results EXCEPT ![mapping_key] = Error("not_found")]
    /\ i' = NumDomains + 1
    /\ UNCHANGED <<pc, available_sheets, values, index, stats, session, table,
                   table0, trace, processed, run, first, book, validation,
                   value, parsed, model_data>>

SheetNotFound ==
    /\ InLoop
    /\ sheet_name(mapping_key) \notin available_sheets
    /\ Record(mapping_key, Error("not_found"))
    /\ UNCHANGED <<available_sheets, session, table, table0, trace, run, first,
                   book, validation,
                   value, parsed, model_data>>

Return ==
    /\ pc = "loop"
    /\ i > NumDomains
    /\ pc' = "done"
    /\ UNCHANGED <<i, available_sheets, values, index, stats, results, session,
                   table, table0, trace, processed, run, first, book, validation,
                   value, parsed, model_data>>

(***************************************************************************)
(* import_sheet                                                            *)
(***************************************************************************)
Called(k) ==
    /\ InLoop
    /\ k = mapping_key
    /\ sheet_name(k) \in available_sheets

ReadFails ==
    /\ Called(mapping_key)
    /\ trace' = trace \cup {<<"read", mapping_key>>}
    /\ Record(mapping_key, Error("read_failed"))
    /\ UNCHANGED <<available_sheets, session, table, table0, run, first, book, validation,
                   value, parsed, model_data>>

(* An import_sheet that clears the table before it looks at the cells. *)
ReadEmptyClears ==
    /\ Called(mapping_key)
    /\ NoCells \in AllowedValues(mapping_key)
    /\ session.usable
    /\ session' = SessionDelete(session, mapping_key)
    /\ trace' = trace \cup {<<"read", mapping_key>>, <<"clear", mapping_key>>}
    /\ Record(mapping_key, Error("empty"))
    /\ UNCHANGED <<available_sheets, table, table0, run, first, book,
                   validation, value, parsed, model_data>>

ReadEmpty ==
    /\ Called(mapping_key)
    /\ NoCells \in AllowedValues(mapping_key)
    /\ trace' = trace \cup {<<"read", mapping_key>>}
    /\ Record(mapping_key, Error("empty"))
    /\ UNCHANGED <<available_sheets, session, table, table0, run, first, book, validation,
                   value, parsed, model_data>>

(* lines 193-199 *)
InitialStats(k, rows) ==
    [sheet_name |-> sheet_name(k), total_rows |-> Len(rows), imported_rows |-> 0,
     skipped_rows |-> 0, errors |-> <<>>]

ReadSheet ==
    /\ Called(mapping_key)
    /\ \E v \in AllowedValues(mapping_key) :
          /\ v # Absent
          /\ v.cells
          /\ values' = [key |-> mapping_key, header |-> v.header, rows |-> v.rows]
          /\ stats' = InitialStats(mapping_key, v.rows)
    /\ trace' = trace \cup {<<"read", mapping_key>>}
    /\ pc' = "clear"
    /\ UNCHANGED <<i, available_sheets, index, results, session, table, table0,
                   processed, run, first, book, validation,
                   value, parsed, model_data>>

(* A DELETE that is committed as soon as it is executed. *)
ClearTableAutocommit ==
    /\ pc = "clear"
    /\ session.usable
    /\ table' = [table EXCEPT ![mapping_key] = <<>>]
    /\ trace' = trace \cup {<<"clear", mapping_key>>}
    /\ index' = 0
    /\ processed' = <<>>
    /\ pc' = "rows"
    /\ UNCHANGED <<i, available_sheets, values, stats, results, session, table0,
                   run, first, book, validation,
                   value, parsed, model_data>>

ClearTable ==
    /\ pc = "clear"
    /\ session.usable
    /\ session' = SessionDelete(session, mapping_key)
    /\ trace' = trace \cup {<<"clear", mapping_key>>}
    /\ index' = 0
    /\ processed' = <<>>
    /\ pc' = "rows"
    /\ UNCHANGED <<i, available_sheets, values, stats, results, table, table0,
                   run, first, book, validation,
                   value, parsed, model_data>>

(* An exception of import_sheet that import_all_sheets lets through. *)
ClearRaisesUncaught ==
    /\ pc = "clear"
    /\ ~session.usable
    /\ pc' = "done"
    /\ UNCHANGED <<i, available_sheets, values, index, stats, results, session,
                   table, table0, trace, processed, run, first, book,
                   validation, value, parsed, model_data>>

(* The session refuses the DELETE: import_sheet raises, import_all_sheets  *)
(* records the exception and goes on.                                      *)
ClearRaises ==
    /\ pc = "clear"
    /\ ~session.usable
    /\ Record(mapping_key, Error("raised"))
    /\ UNCHANGED <<available_sheets, session, table, table0, trace, run, first,
                   book, validation,
                   value, parsed, model_data>>

(* The database fails the DELETE: a statement error leaves the transaction *)
(* aborted, a connection error leaves the session as it was.               *)
ClearFault ==
    /\ pc = "clear"
    /\ session.usable
    /\ \E after \in {session, FailedSession(session)} : session' = after
    /\ Record(mapping_key, Error("raised"))
    /\ UNCHANGED <<available_sheets, table, table0, trace, run, first, book, validation,
                   value, parsed, model_data>>

(* A row loop whose except clause records the error without counting it.   *)
RowOutcomeUncounted(st, sess, k, inst, idx) ==
    IF inst = Raised
    THEN [stats |-> [st EXCEPT !.errors = Append(@, [row |-> idx + 2])],
          session |-> sess, next |-> idx + 1]
    ELSE [stats |-> [st EXCEPT !.imported_rows = @ + 1],
          session |-> SessionAdd(sess, k, inst), next |-> idx + 1]

(* A row loop whose error entries count the data rows from 1. *)
RowOutcomeOffByOne(st, sess, k, inst, idx) ==
    IF inst = Raised
    THEN [stats |-> [st EXCEPT !.skipped_rows = @ + 1,
                               !.errors = Append(@, [row |-> idx + 1])],
          session |-> sess, next |-> idx + 1]
    ELSE [stats |-> [st EXCEPT !.imported_rows = @ + 1],
          session |-> SessionAdd(sess, k, inst), next |-> idx + 1]

(* One pass of the row loop: the try block and its except clause. *)
RowOutcome(st, sess, k, inst, idx) ==
    IF inst = Raised
    THEN [stats |-> [st EXCEPT !.skipped_rows = @ + 1,
                               !.errors = Append(@, [row |-> idx + 2])],
          session |-> sess, next |-> idx + 1]
    ELSE [stats |-> [st EXCEPT !.imported_rows = @ + 1],
          session |-> SessionAdd(sess, k, inst), next |-> idx + 1]

Advance(out) ==
    /\ stats' = out.stats
    /\ session' = out.session
    /\ index' = out.next

ProcessRow ==
    /\ pc = "rows"
    /\ index < Len(values.rows)
    /\ Advance(RowOutcome(stats, session, mapping_key,
                          model_instance(mapping_key, values.header,
                                         values.rows[index + 1]),
                          index))
    /\ processed' = Append(processed, index)
    /\ UNCHANGED <<pc, i, available_sheets, values, results, table, table0,
                   trace, run, first, book, validation,
                   value, parsed, model_data>>

(* A row loop that a failing row ends. *)
LoopEndedByFailure ==
    pc = "rows" /\ (index >= Len(values.rows) \/ stats.skipped_rows > 0)

LoopEnded == pc = "rows" /\ index >= Len(values.rows)

Commit ==
    /\ LoopEnded
    /\ ~FlushFails(session)
    /\ table' = Committed(session, table)
    /\ session' = NewSession
    /\ trace' = trace \cup {<<"commit", mapping_key>>}
    /\ Record(mapping_key, stats)
    /\ UNCHANGED <<available_sheets, table0, run, first, book, validation,
                   value, parsed, model_data>>

CommitRaises ==
    /\ LoopEnded
    /\ FlushFails(session)
    /\ session' = FailedSession(session)
    /\ Record(mapping_key, Error("raised"))
    /\ UNCHANGED <<available_sheets, table, table0, trace, run, first, book, validation,
                   value, parsed, model_data>>

(* Any other failure of the commit: a statement error leaves the session    *)
(* refusing statements, a lost connection ends the transaction and the      *)
(* session starts a new one on its next statement.                          *)
CommitFault ==
    /\ LoopEnded
    /\ ~FlushFails(session)
    /\ \E after \in {FailedSession(session), NewSession} : session' = after
    /\ Record(mapping_key, Error("raised"))
    /\ UNCHANGED <<available_sheets, table, table0, trace, run, first, book, validation,
                   value, parsed, model_data>>

(***************************************************************************)
(* run_google_sheets_import, after import_all_sheets returned: the results *)
(* are printed and validate_import counts the records of every table on    *)
(* the session the import used.                                            *)
(***************************************************************************)
(* A count that finds every table empty. *)
no_records(tbl) == 0
record_count(tbl) == Len(tbl)

Validate ==
    /\ pc \in {"done", "aborted"}
    /\ session.usable
    /\ validation' = [k \in KeySet |-> record_count(table[k])]
    /\ pc' = "validated"
    /\ UNCHANGED <<i, available_sheets, values, index, stats, results, session,
                   table, table0, trace, processed, run, first, book, value,
                   parsed, model_data>>

(* The session refuses the SELECT: validate_import raises and the run ends *)
(* without a validation report.                                            *)
ValidateRaises ==
    /\ pc = "done"
    /\ ~session.usable
    /\ pc' = "validation_failed"
    /\ UNCHANGED <<i, available_sheets, values, index, stats, results, session,
                   table, table0, trace, processed, run, first, book,
                   validation, value, parsed, model_data>>

(* The result of a failed sheet-list request is {"error": message}; the    *)
(* print loop takes the message for a domain's result and, when the text   *)
(* "error" is not in it, indexes it as a statistics dict, which raises.    *)
ReportRaises ==
    /\ pc = "aborted"
    /\ pc' = "validation_failed"
    /\ UNCHANGED <<i, available_sheets, values, index, stats, results, session,
                   table, table0, trace, processed, run, first, book,
                   validation, value, parsed, model_data>>

(* The process is killed: its memory is gone and the database rolls the    *)
(* open transaction back.                                                  *)
Crash ==
    /\ pc \in {"list", "loop", "clear", "rows"}
    /\ pc' = "crashed"
    /\ i' = 1
    /\ available_sheets' = {}
    /\ values' = NoValues
    /\ index' = 0
    /\ stats' = NoStats
    /\ results' = [k \in KeySet |-> NoResult]
    /\ session' = NewSession
    /\ processed' = <<>>
    /\ UNCHANGED <<table, table0, trace, run, first, book, validation,
                   value, parsed, model_data>>

Steps ==
    \/ ListSheets
    \/ SheetNotFound
    \/ ReadEmpty
    \/ ReadSheet
    \/ ClearTable
    \/ ClearRaises
    \/ ProcessRow
    \/ Commit
    \/ CommitRaises
    \/ Return
    \/ Validate
    \/ ValidateRaises

Next ==
    \/ Steps
    \/ ListSheetsFails
    \/ ReportRaises
    \/ ReadFails
    \/ ClearFault
    \/ CommitFault
    \/ Crash

Spec == Init /\ [][Next]_vars

(***************************************************************************)
(* Two runs of run_google_sheets_import, one after the other, against one  *)
(* spreadsheet that does not change and a database that does not fail: the *)
(* second run is a new process with a new session.  The spreadsheets are   *)
(* those with at most one bad row, any number of sheets missing or empty.  *)
(***************************************************************************)
BadRowsOf(k, sheet) ==
    {n \in 1..Len(sheet.rows) : sheet.rows[n] = BadRow(k, sheet.header)}
GoodSheets(k) ==
    {Absent} \cup {v \in SheetMenu(k) : BadRowsOf(k, v) = {}}
OneBadSheets(k) ==
    {v \in SheetMenu(k) : Cardinality(BadRowsOf(k, v)) = 1}
(* The spreadsheets over the first n catalog entries: without a bad row, *)
(* and with at most one.                                                  *)
RECURSIVE GoodBooks(_)
GoodBooks(n) ==
    IF n = 0 THEN {<<>>}
    ELSE {Append(b, s) : b \in GoodBooks(n - 1), s \in GoodSheets(Keys[n])}
RECURSIVE Books(_)
Books(n) ==
    IF n = 0 THEN {<<>>}
    ELSE {Append(b, s) : b \in Books(n - 1), s \in GoodSheets(Keys[n])}
         \cup {Append(b, s) : b \in GoodBooks(n - 1), s \in OneBadSheets(Keys[n])}

InitTwice ==
    /\ StartState(pc, i, available_sheets, values, index, stats, results,
                  session, trace, processed)
    /\ table0 = [k \in KeySet |-> <<OldRow(k)>>]
    /\ table = table0
    /\ run = 1
    /\ first = None
    /\ book \in Books(NumDomains)
    /\ NoCall(validation, value, parsed, model_data)

Rerun ==
    /\ pc \in {"validated", "validation_failed"}
    /\ run = 1
    /\ run' = 2
    /\ first' = [results |-> results, table |-> table]
    /\ StartState(pc', i', available_sheets', values', index', stats', results',
                  session', trace', processed')
    /\ validation' = None
    /\ UNCHANGED <<table, table0, book, value, parsed, model_data>>

NextTwice == Steps \/ Rerun

SpecTwice == InitTwice /\ [][NextTwice]_vars

(***************************************************************************)
(* The DataTransforms functions called on their own: one call of one       *)
(* function on one cell value.  The values are null, the numbers, decimals *)
(* and datetimes below, every string of at most MaxLen characters over     *)
(* Alphabet, and the strings of NotableStrings.                            *)
(***************************************************************************)
MaxLen == 3
Alphabet == {"1", "5", ".", ",", "%", "="}
BoundedStrings == UNION {[1..n -> Alphabet] : n \in 0..MaxLen}
NotableStrings ==
    {<<"9", ".", "0", "6", "%">>,
     <<"1", ",", "2", "3", "4", ".", "5">>,
     <<"1", ",", "2", "3", "4", ".", "5", "%">>,
     <<"1", ",", "2", "3", "4">>,
     <<"=", "A", "1", "/", "B", "1">>,
     <<"=", "1", "2", ".", "5">>,
     <<"n", "a", "n">>,
     <<"i", "n", "f">>,
     <<"-", "I", "n", "f", "i", "n", "i", "t", "y">>,
     <<"N", "a", "T">>,
     <<" ", "4", "2", " ">>,
     <<"-", "3", ".", "7">>,
     <<"1", "e", "2">>,
     <<"5", "0", "%">>,
     <<"a", "b", "c">>,
     GoodDate,
     BadDate}
Numbers == {PyInt(0), PyInt(7), PyInt(0 - 3), PyFloat(<<"1", ".", "5">>),
            PyFloat(<<"-", "0", ".", "5">>), FloatNaN}
Decimals == {Dec(0, 15, 0 - 1), Dec(1, 2, 0)}
Datetimes == {Datetime(GoodDate)}
CellValues ==
    {None} \cup {Str(s) : s \in BoundedStrings \cup NotableStrings}
           \cup Numbers \cup Decimals \cup Datetimes

(* The texts whose reading by pd.to_datetime the model states. *)
DateTexts ==
    NatStrings \cup ParsableDates
        \cup {BadDate, <<"=", "A", "1", "/", "B", "1">>, <<"a", "b", "c">>,
              <<"%">>, <<"=">>, <<",">>}

InitParse ==
    /\ StartState(pc, i, available_sheets, values, index, stats, results,
                  session, trace, processed)
    /\ table0 = [k \in KeySet |-> <<>>]
    /\ table = table0
    /\ run = 1
    /\ first = None
    /\ book = Unconstrained
    /\ validation = None
    /\ value \in CellValues
    /\ parsed = Unparsed
    /\ model_data = NoData

Call(f, out) ==
    /\ parsed' = [f |-> f, out |-> out]
    /\ UNCHANGED <<pc, i, available_sheets, values, index, stats, results,
                   session, table, table0, trace, processed, run, first, book,
                   validation, value, model_data>>

CallParseDatetime ==
    /\ parsed = Unparsed
    /\ IsStr(value) => value.str \in DateTexts
    /\ Call("parse_datetime", parse_datetime(value))
CallParseDecimal ==
    /\ parsed = Unparsed
    /\ Call("parse_decimal", parse_decimal(value))
CallParseDecimalFromString ==
    /\ parsed = Unparsed
    /\ Call("parse_decimal_from_string", parse_decimal_from_string(value))
CallParseInteger ==
    /\ parsed = Unparsed
    /\ Call("parse_integer", parse_integer(value))

NextParse ==
    \/ CallParseDatetime
    \/ CallParseDecimal
    \/ CallParseDecimalFromString
    \/ CallParseInteger

SpecParse == InitParse /\ [][NextParse]_vars

(***************************************************************************)
(* One pass of the row loop of import_sheet on its own, for every entry of *)
(* the catalog: the mapping loop (lines 208-246), the defaults (lines      *)
(* 248-285) and the construction of the instance with its except clause    *)
(* (lines 287-296), on a sheet of one data row just after the table was    *)
(* cleared.  The header row is one of: every mapped header, the mapped     *)
(* headers whose target the table model declares, the required ones only,  *)
(* the declared ones plus a column the mapping does not know, the declared *)
(* ones with one header misspelt.  The data row holds a different text in  *)
(* every column, with at most one cell replaced by one of CellEdits (None  *)
(* is a cell the row does not reach).                                      *)
(***************************************************************************)
AllKeys == {EXCEL_MAPPINGS[n] : n \in 1..Len(EXCEL_MAPPINGS)}
CatalogIndex(k) == CHOOSE n \in 1..Len(EXCEL_MAPPINGS) : EXCEL_MAPPINGS[n] = k
Targets(k) == {column_mapping(k)[n][2] : n \in 1..Len(column_mapping(k))}
IsMapped(k, h) == \E n \in 1..Len(column_mapping(k)) : column_mapping(k)[n][1] = h

AllHeaders(k) == SelectHeaders(column_mapping(k), Targets(k))
DeclaredHeaders(k) ==
    SelectHeaders(column_mapping(k), ModelFields(table_model(k)))
Misspelt(h) == h \o " "
RenamedHeaders(k) ==
    {[DeclaredHeaders(k) EXCEPT ![n] = Misspelt(@)] :
        n \in 1..Len(DeclaredHeaders(k))}
EditedHeaders(k) ==
    {AllHeaders(k), DeclaredHeaders(k), BaseHeader(k),
     DeclaredHeaders(k) \o <<"NOTES">>}

PlainCell(k, header, n) ==
    IF IsMapped(k, header[n]) /\ IsDateColumn(k, header[n]) THEN Str(GoodDate)
    ELSE Str(NatStr(n))
PlainRow(k, header) ==
    [h \in {header[n] : n \in 1..Len(header)} |->
        PlainCell(k, header, CHOOSE n \in 1..Len(header) : header[n] = h)]
CellEdits ==
    {None, Str(<<>>), Str(<<"n", "a", "n">>), Str(<<"5", "0", "%">>),
     Str(<<"a", "b", "c", "%">>), Str(<<"a", "b", "c">>), Str(BadDate)}
EditedRows(k, header) ==
    {PlainRow(k, header)}
        \cup {[PlainRow(k, header) EXCEPT ![header[n]] = c] :
                 n \in 1..Len(header), c \in CellEdits}
RowSheets(k) ==
    UNION {{[key |-> k, header |-> h, rows |-> <<r>>] : r \in EditedRows(k, h)} :
              h \in EditedHeaders(k)}
        \cup {[key |-> k, header |-> h, rows |-> <<PlainRow(k, h)>>] :
                 h \in RenamedHeaders(k)}

InitRow ==
    /\ pc = "map"
    /\ \E k \in AllKeys :
          /\ values \in RowSheets(k)
          /\ i = CatalogIndex(k)
          /\ available_sheets = {sheet_name(k)}
          /\ session = SessionDelete(NewSession, k)
          /\ stats = InitialStats(k, values.rows)
    /\ index = 0
    /\ results = [k \in KeySet |-> NoResult]
    /\ trace = {}
    /\ processed = <<>>
    /\ table0 = [k \in KeySet |-> <<>>]
    /\ table = table0
    /\ run = 1
    /\ first = None
    /\ book = Unconstrained
    /\ NoCall(validation, value, parsed, model_data)

(* The except clause of the row loop. *)
RowRaises ==
    /\ Advance(RowOutcome(stats, session, values.key, Raised, index))
    /\ processed' = Append(processed, index)
    /\ pc' = "row_done"

(* A mapping loop that raises for a mapped header the sheet lacks. *)
MapColumnsStrict(data) ==
    IF (\E f \in DOMAIN data : data[f] = Raised)
       \/ DOMAIN data # Targets(values.key)
    THEN RowRaises /\ UNCHANGED model_data
    ELSE /\ model_data' = data
         /\ pc' = "defaults"
         /\ UNCHANGED <<index, stats, session, processed>>

(* lines 208-246 *)
MapColumnsTo(data) ==
    IF \E f \in DOMAIN data : data[f] = Raised
    THEN RowRaises /\ UNCHANGED model_data
    ELSE /\ model_data' = data
         /\ pc' = "defaults"
         /\ UNCHANGED <<index, stats, session, processed>>
MapColumns ==
    /\ pc = "map"
    /\ index < Len(values.rows)
    /\ MapColumnsTo(mapped_data(values.key, values.header, values.rows[index + 1]))
    /\ UNCHANGED <<i, available_sheets, values, results, table, table0, trace,
                   run, first, book, validation, value, parsed>>

(* lines 248-285 *)
AddDefaults ==
    /\ pc = "defaults"
    /\ model_data' = with_defaults(table_model(values.key), model_data)
    /\ pc' = "create"
    /\ UNCHANGED <<i, available_sheets, values, index, stats, results, session,
                   table, table0, trace, processed, run, first, book,
                   validation, value, parsed>>

(* lines 287-296 *)
CreateInstance ==
    /\ pc = "create"
    /\ Advance(RowOutcome(stats, session, values.key,
                          Construct(table_model(values.key), model_data), index))
    /\ processed' = Append(processed, index)
    /\ pc' = "row_done"
    /\ UNCHANGED <<i, available_sheets, values, results, table, table0, trace,
                   run, first, book, validation, value, parsed, model_data>>

NextRow ==
    \/ MapColumns
    \/ AddDefaults
    \/ CreateInstance

SpecRow == InitRow /\ [][NextRow]_vars

(***************************************************************************)
(* Properties.                                                             *)
(***************************************************************************)
Kept(instance) == IF instance = Raised THEN <<>> ELSE <<instance>>
(* The records the row loop builds from the rows of a sheet, in sheet order. *)
RECURSIVE BuiltRecords(_, _, _)
BuiltRecords(k, header, rows) ==
    IF rows = <<>> THEN <<>>
    ELSE Kept(model_instance(k, header, rows[1]))
         \o BuiltRecords(k, header, Tail(rows))
(* import_sheet comes back to import_all_sheets in this step. *)
ImportReturns == pc \in {"clear", "rows"} /\ pc' = "loop"
ReturnsStats == ImportReturns /\ IsStats(results'[mapping_key])
CurrentInstance ==
    model_instance(mapping_key, values.header, values.rows[index + 1])
RowStep == pc = "rows" /\ pc' = "rows" /\ index' = index + 1

(* C1: for every domain for which import_sheet returns statistics,          *)
(* imported_rows + skipped_rows = total_rows, and total_rows is the number  *)
(* of data rows of the sheet; during the row loop imported_rows +           *)
(* skipped_rows is the number of rows processed so far.                     *)
C1_StatsAddUp ==
    /\ [](pc = "rows" =>
            /\ stats.total_rows = Len(values.rows)
            /\ stats.imported_rows + stats.skipped_rows = Len(processed))
    /\ [](\A k \in KeySet :
            IsStats(results[k]) =>
                results[k].imported_rows + results[k].skipped_rows
                    = results[k].total_rows)
    /\ [][ReturnsStats =>
            results'[mapping_key].total_rows = Len(values.rows)]_vars

C1_Witness ==
    \E k, j \in KeySet :
        /\ IsStats(results[k]) /\ results[k].skipped_rows = MaxRows
        /\ IsStats(results[j]) /\ results[j].imported_rows = MaxRows

(* C2: a row whose record holds null in a field the table declares          *)
(* non-nullable is rejected at row level: it is counted in skipped_rows, an *)
(* error entry is appended for it, and it is not added to the session.      *)
C2_NullRequiredRejected ==
    [][(RowStep /\ CurrentInstance # Raised
          /\ ViolatesNotNull(table_model(mapping_key), CurrentInstance))
        => /\ stats'.skipped_rows = stats.skipped_rows + 1
           /\ Len(stats'.errors) = Len(stats.errors) + 1
           /\ session'.new = session.new]_vars

(* C3: for a sheet of n data rows of which exactly one, data row k, has an  *)
(* unparsable date in a required date field, the domain's report shows      *)
(* total_rows = n, imported_rows = n - 1, skipped_rows = 1 and exactly one  *)
(* error entry, which references that row (sheet row k + 1, the header      *)
(* being sheet row 1).                                                      *)
UnparsableRequiredDate(k, header, row) ==
    \E n \in 1..Len(header) :
        /\ IsDateColumn(k, header[n])
        /\ TargetOf(k, header[n]) \in NotNullFields(table_model(k))
        /\ row[header[n]] = Str(BadDate)
        /\ transformed_value(k, TargetOf(k, header[n]), row[header[n]]) = None
BadDateRows(k, header, rows) ==
    {n \in 1..Len(rows) : UnparsableRequiredDate(k, header, rows[n])}
C3_OneBadDateReport ==
    [][(pc = "rows" /\ pc' = "loop"
          /\ Cardinality(BadDateRows(mapping_key, values.header, values.rows)) = 1
          /\ \A n \in 1..Len(values.rows) :
                model_instance(mapping_key, values.header, values.rows[n]) # Raised)
        => /\ IsStats(results'[mapping_key])
           /\ results'[mapping_key].total_rows = Len(values.rows)
           /\ results'[mapping_key].imported_rows = Len(values.rows) - 1
           /\ results'[mapping_key].skipped_rows = 1
           /\ Len(results'[mapping_key].errors) = 1
           /\ \A n \in BadDateRows(mapping_key, values.header, values.rows) :
                results'[mapping_key].errors[1].row = n + 1]_vars

(* C4: a failing row never ends the row loop: every data row is processed   *)
(* exactly once, in sheet order, whatever happened to earlier rows, and     *)
(* every row built without error is counted as imported and is part of the  *)
(* domain's commit.                                                         *)
C4_RowLoopNeverAborts ==
    /\ [](pc = "rows" => processed = [n \in 1..index |-> n - 1])
    /\ [][(pc = "rows" /\ pc' = "loop")
            => /\ Len(processed) = Len(values.rows)
               /\ stats.imported_rows
                    = Len(BuiltRecords(mapping_key, values.header, values.rows))
               /\ InstancesOf(session.new, mapping_key)
                    = BuiltRecords(mapping_key, values.header, values.rows)]_vars
    /\ [][(RowStep /\ CurrentInstance # Raised)
            => /\ stats'.imported_rows = stats.imported_rows + 1
               /\ session'.new
                    = Append(session.new, [key |-> mapping_key,
                                           instance |-> CurrentInstance])]_vars

C4_Witness ==
    /\ pc = "rows"
    /\ stats.skipped_rows >= 1
    /\ index >= 2
    /\ Len(stats.errors) = index

(* C5: two runs of import_all_sheets, one after the other, against an      *)
(* unchanged spreadsheet leave, for every domain, the same table contents,  *)
(* the same persisted row count and the same statistics after the second   *)
(* run as after the first.                                                  *)
C5_SecondRunSameOutcome ==
    (run = 2 /\ pc = "done") =>
        \A k \in KeySet :
            /\ table[k] = first.table[k]
            /\ Len(table[k]) = Len(first.table[k])
            /\ results[k] = first.results[k]

C5_Witness ==
    /\ run = 2
    /\ pc = "done"
    /\ \E k, j \in KeySet :
          /\ IsStats(results[k]) /\ results[k].imported_rows = MaxRows
          /\ table[k] # table0[k]
          /\ results[j] = Error("raised")

(* C6: when a domain's import_sheet returns statistics, the domain's table  *)
(* holds exactly the records built from the rows counted as imported and no *)
(* row it held before, whatever it held before.                             *)
C6_FullReplace ==
    [][ReturnsStats =>
          /\ table'[mapping_key]
                = BuiltRecords(mapping_key, values.header, values.rows)
          /\ Len(table'[mapping_key]) = results'[mapping_key].imported_rows
          /\ \A n \in 1..Len(table'[mapping_key]) :
                table'[mapping_key][n] # OldRow(mapping_key)]_vars

C6_Witness ==
    \E k \in KeySet :
        /\ table0[k] = <<OldRow(k)>>
        /\ IsStats(results[k])
        /\ results[k].imported_rows = MaxRows
        /\ Len(table[k]) = MaxRows

(* C7: when the sheet of domain A is not in the sheet list, a "sheet not    *)
(* found" error is recorded for A, nothing is read or cleared for A, the    *)
(* loop goes on, and every domain B whose sheet is in the list is attempted *)
(* and is reported with its statistics when its own import commits, which   *)
(* it does whenever no domain of the run meets a failure of its own (an     *)
(* empty sheet, a failed read, an exception).                               *)
Missing(k) == sheet_name(k) \notin available_sheets
C7_MissingSheetSkipsOnlyItself ==
    /\ [](pc \in {"loop", "clear", "rows", "done"} =>
            \A A \in KeySet :
                (Missing(A) /\ KeyIndex(A) < i) =>
                    /\ results[A] = Error("not_found")
                    /\ <<"read", A>> \notin trace
                    /\ <<"clear", A>> \notin trace)
    /\ [][(InLoop /\ Missing(mapping_key) /\ pc' # "crashed") =>
            /\ i' = i + 1
            /\ pc' = "loop"
            /\ <<session, table, trace, available_sheets>>'
                 = <<session, table, trace, available_sheets>>]_vars
    /\ [](pc = "done" =>
            \A B \in KeySet :
                ~Missing(B) =>
                    /\ <<"read", B>> \in trace
                    /\ results[B] \notin {NoResult, Error("not_found")}
                    /\ <<"commit", B>> \in trace <=> IsStats(results[B])
                    /\ (\A k \in KeySet :
                            results[k] \notin {Error("raised"), Error("empty"),
                                               Error("read_failed")})
                         => /\ IsStats(results[B])
                            /\ Len(table[B]) = results[B].imported_rows)

C7_Witness ==
    /\ pc = "done"
    /\ \E A, B \in KeySet :
          /\ KeyIndex(A) < KeyIndex(B)
          /\ Missing(A)
          /\ results[A] = Error("not_found")
          /\ ~Missing(B)
          /\ IsStats(results[B])
          /\ results[B].imported_rows = MaxRows

(* C8: after a domain's import raised, every later domain is attempted on   *)
(* the same session and finds it free of that failure: the session accepts  *)
(* the later domain's table clear.                                          *)
C8_LaterDomainFindsSessionUsable ==
    (pc = "clear" /\ \E k \in KeySet : results[k] = Error("raised"))
        => session.usable

(* C9: processing domain N changes no table but N's own: the committed      *)
(* contents of every other domain are the same after each of its steps.     *)
C9_OnlyOwnTableChanges ==
    [][/\ \A k \in KeySet :
            (InLoop \/ pc \in {"clear", "rows"}) /\ k # mapping_key
                => table'[k] = table[k]
       /\ ~(InLoop \/ pc \in {"clear", "rows"}) => table' = table]_vars

C9_Witness ==
    \E k, j \in KeySet :
        /\ KeyIndex(k) < KeyIndex(j)
        /\ IsStats(results[k])
        /\ results[k].imported_rows = MaxRows
        /\ Len(table[k]) = MaxRows
        /\ results[j] = Error("raised")
        /\ table[j] = <<OldRow(j)>>

(* C10: the clear and the inserts of a domain are committed as one unit,    *)
(* once, after its last row: in every state, also after a crash or a failed *)
(* commit, each table holds what it held before the run or the complete set *)
(* of records built from its sheet.                                         *)
C10_OneCommitPerDomain ==
    /\ [](\A k \in KeySet :
            <<"commit", k>> \notin trace => table[k] = table0[k])
    /\ [][\A k \in KeySet :
            \/ table'[k] = table[k]
            \/ /\ k = mapping_key
               /\ pc = "rows"
               /\ index = Len(values.rows)
               /\ <<"commit", k>> \notin trace
               /\ <<"commit", k>> \in trace'
               /\ table'[k] = BuiltRecords(k, values.header, values.rows)]_vars

C10_Witness ==
    /\ pc = "crashed"
    /\ \E k, j \in KeySet :
          /\ <<"clear", k>> \in trace
          /\ <<"commit", k>> \notin trace
          /\ table[k] = <<OldRow(k)>>
          /\ <<"commit", j>> \in trace
          /\ Len(table[j]) = MaxRows

(* C11: whenever the sheet list can be fetched, the result of              *)
(* import_all_sheets has exactly one entry per domain key of the catalog,   *)
(* each either the domain's statistics (sheet_name, total_rows,             *)
(* imported_rows, skipped_rows, errors) or a domain-level error, whatever   *)
(* failed in other domains.                                                 *)
StatsKeys == {"sheet_name", "total_rows", "imported_rows", "skipped_rows",
              "errors"}
C11_OneEntryPerDomain ==
    pc = "done" =>
        /\ DOMAIN results = KeySet
        /\ \A k \in KeySet :
              \/ /\ DOMAIN results[k] = StatsKeys
                 /\ results[k].sheet_name = sheet_name(k)
              \/ /\ DOMAIN results[k] = {"error"}
                 /\ results[k].error
                      \in {"not_found", "read_failed", "empty", "raised"}

C11_Witness ==
    /\ pc = "done"
    /\ \E a, b, c \in KeySet :
          /\ results[a] = Error("raised")
          /\ IsStats(results[b])
          /\ results[c] = Error("not_found")

(* C12: after all domains have been processed the validation pass runs to   *)
(* completion and reports the persisted row count of every domain's table,  *)
(* also when domains failed during the import.                              *)
C12_ValidationCompletes ==
    [][pc = "done" =>
          /\ pc' = "validated"
          /\ \A k \in KeySet : validation'[k] = Len(table[k])]_vars

(* C13: domains are processed one at a time in the catalog's declared       *)
(* order: every read, clear and commit belongs to the domain at the loop's  *)
(* position, the domains before that position are exactly those with an     *)
(* outcome, and a domain whose turn has not come or has just come has no    *)
(* step behind it, so none is attempted twice.                              *)
Stepped(k) == \E op \in {"read", "clear", "commit"} : <<op, k>> \in trace
C13_CatalogOrderOneAtATime ==
    /\ [](EXCEL_MAPPINGS = <<"TECHNICALS", "INDICATOR", "BIBLIO_ALL",
                             "METEO_ALL", "CONFIG", "BEST PERF", "PODCAST">>)
    /\ [](pc \in {"loop", "clear", "rows", "done"} =>
            \A k \in KeySet :
                /\ Stepped(k) => KeyIndex(k) <= i
                /\ (pc = "loop" /\ KeyIndex(k) = i) => ~Stepped(k)
                /\ results[k] # NoResult <=> KeyIndex(k) < i)
    /\ [][(pc = "loop" \/ pc = "clear" \/ pc = "rows") =>
            /\ i' \in {1, i, i + 1}
            /\ \A k \in KeySet :
                  (KeyIndex(k) # i) =>
                      \A op \in {"read", "clear", "commit"} :
                          <<op, k>> \in trace' => <<op, k>> \in trace]_vars

C13_Witness ==
    /\ pc = "rows"
    /\ i = 2
    /\ index = MaxRows
    /\ IsStats(results[Keys[1]])
    /\ Stepped(Keys[1])
    /\ ~Stepped(Keys[3])

(* C14: when the spreadsheet cannot be accessed the run aborts before any   *)
(* domain executes: no sheet is read, no table is cleared or written and    *)
(* no per-domain entry is produced.                                         *)
C14_NoAccessNoDomain ==
    /\ [](pc = "aborted" =>
            /\ trace = {}
            /\ table = table0
            /\ session = NewSession
            /\ \A k \in KeySet : results[k] = NoResult)
    /\ [][pc = "aborted" =>
            /\ table' = table
            /\ trace' = trace
            /\ results' = results]_vars

C14_Witness ==
    /\ pc = "validated"
    /\ i = 1
    /\ available_sheets = {}
    /\ \A k \in KeySet : results[k] = NoResult /\ validation[k] = 1

(* C15: each of parse_datetime, parse_decimal, parse_decimal_from_string   *)
(* and parse_integer is total over cell values (null, empty string, any     *)
(* string, any number): it returns a value of its type or null and never    *)
(* raises; "=A1/B1" gives null from parse_decimal_from_string.              *)
Called_(f) == parsed.f = f
TypedOrNull(f, out) ==
    \/ out = None
    \/ f = "parse_datetime" /\ (IsDatetime(out) \/ out = NaT)
    \/ f \in {"parse_decimal", "parse_decimal_from_string"} /\ IsDec(out)
    \/ f = "parse_integer" /\ IsInt(out)
C15_TransformsTotal ==
    parsed # Unparsed =>
        /\ parsed.out # Raised
        /\ TypedOrNull(parsed.f, parsed.out)
        /\ (Called_("parse_decimal_from_string")
              /\ value = Str(<<"=", "A", "1", "/", "B", "1">>))
            => parsed.out = None

C15_Witness ==
    /\ Called_("parse_decimal_from_string")
    /\ value = Str(<<"=", "A", "1", "/", "B", "1">>)
    /\ parsed.out = None

(* C16: for every valid decimal-like string s, with or without ','         *)
(* thousands separators and with or without a trailing '%' (also with       *)
(* both), parse_decimal(s) is the number read with the separators removed,  *)
(* divided by 100 when the '%' is present.                                  *)
Finite(d) == IsDec(d) /\ "coef" \in DOMAIN d.dec
Percent(s) == EndsWith(s, "%")
Body(s) == IF Percent(s) THEN SubSeq(s, 1, Len(s) - 1) ELSE s
(* A ',' follows a digit of the integer part and is followed by exactly     *)
(* three digits.                                                            *)
SeparatorsInPlace(b) ==
    \A k \in 1..Len(b) :
        b[k] = "," =>
            /\ k > 1 /\ IsDigit(b[k - 1])
            /\ k + 3 <= Len(b)
            /\ \A j \in (k + 1)..(k + 3) : IsDigit(b[j])
            /\ k + 4 <= Len(b) => ~IsDigit(b[k + 4])
            /\ \A j \in 1..k : b[j] # "."
ValidDecimalLike(s) ==
    /\ \A k \in 1..Len(Body(s)) :
          IsDigit(Body(s)[k]) \/ Body(s)[k] \in {".", ",", "-", "+"}
    /\ SeparatorsInPlace(Body(s))
    /\ Finite(DecimalOf(Replace(Body(s), ",")))
Scaled(d, n) == Dec(d.dec.sign, d.dec.coef, d.dec.exp - n)
IntendedDecimal(s) ==
    Scaled(DecimalOf(Replace(Body(s), ",")), IF Percent(s) THEN 2 ELSE 0)
(* Two finite decimals are the same number. *)
SameNumber(a, b) ==
    /\ a.dec.coef * Pow10(a.dec.exp - b.dec.exp)
         = b.dec.coef * Pow10(b.dec.exp - a.dec.exp)
    /\ a.dec.sign = b.dec.sign \/ a.dec.coef = 0
C16_DecimalIntendedValue ==
    (Called_("parse_decimal") /\ IsStr(value) /\ ValidDecimalLike(value.str))
        => /\ Finite(parsed.out)
           /\ SameNumber(parsed.out, IntendedDecimal(value.str))

(* C17: parse_decimal returns null for the null value, for the empty string *)
(* and for the string "nan", and never returns a NaN or an infinity for a   *)
(* string.                                                                  *)
C17_DecimalNeverNonFinite ==
    Called_("parse_decimal") =>
        /\ value \in {None, Str(<<>>), Str(<<"n", "a", "n">>)}
              => parsed.out = None
        /\ IsStr(value) => parsed.out \notin {DecNaN, DecInf(0), DecInf(1)}

(* C18: parse_decimal_from_string returns the value of parse_decimal on     *)
(* every input on which parse_decimal returns a value, and also parses the  *)
(* strings that carry a leading '=' before a number.                        *)
C18_FromStringExtendsDecimal ==
    Called_("parse_decimal_from_string") =>
        /\ parse_decimal(value) # None => parsed.out = parse_decimal(value)
        /\ (IsStr(value) /\ Len(value.str) > 0 /\ value.str[1] = "="
              /\ Finite(DecimalOf(Tail(value.str))))
            => parsed.out = DecimalOf(Tail(value.str))

(* C19: parse_integer is parse_decimal followed by truncation toward zero:  *)
(* it returns null exactly when parse_decimal does, and the truncated value *)
(* of parse_decimal otherwise.                                              *)
C19_IntegerTruncatesDecimal ==
    Called_("parse_integer") =>
        /\ parsed.out = None <=> parse_decimal(value) = None
        /\ Finite(parse_decimal(value))
              => parsed.out = Truncate(parse_decimal(value))

(* C20: parse_datetime returns null for a null or empty-string input, an    *)
(* input that is a datetime unchanged, and null, neither the missing-time   *)
(* marker nor an exception, for every input it cannot parse as a date.      *)
C20_DatetimeNullOrDatetime ==
    Called_("parse_datetime") =>
        /\ value \in {None, Str(<<>>)} => parsed.out = None
        /\ IsDatetime(value) => parsed.out = value
        /\ parsed.out \notin {NaT, Raised}
        /\ (IsStr(value) /\ to_datetime(value.str) = Raised)
              => parsed.out = None

(* The data row of the sheet whose row pass is followed. *)
TheRow == values.rows[1]
SheetHas(excel_col) == InHeader(excel_col, values.header)
Mapping == column_mapping(values.key)
(* The raw cell with the empty string, "nan" and a missing cell as null. *)
PassThrough(cell) ==
    IF cell \in {None, Str(<<>>), Str(<<"n", "a", "n">>)} THEN None ELSE cell

(* C21: for a mapped target field without a declared transform, the value   *)
(* in the transformed record is the raw cell value unchanged, except that   *)
(* the empty string and the string "nan" become null; a text ending in '%'  *)
(* is stored as that same text.                                             *)
C21_RawValuePassesThrough ==
    pc = "defaults" =>
        \A f \in DOMAIN model_data :
            ~HasTransform(values.key, f) =>
                \E n \in 1..Len(Mapping) :
                    /\ Mapping[n][2] = f
                    /\ SheetHas(Mapping[n][1])
                    /\ model_data[f] = PassThrough(TheRow[Mapping[n][1]])

(* C22: when two headers that map to the same target field are both in a   *)
(* TECHNICALS sheet ('Gain' and 'Gain(14d)', 'Perte' and 'Perte(14d)',      *)
(* 'RSI 14D' and 'RSI(14d)'), the field takes the value derived from the    *)
(* header that comes later in the mapping's declared order, also when that  *)
(* value is null and the earlier one is not.                                *)
SharedTargets ==
    {<<"Gain", "Gain(14d)", "gain_14d">>, <<"Perte", "Perte(14d)", "loss_14d">>,
     <<"RSI 14D", "RSI(14d)", "rsi_14d">>}
DeclaredInOrder(t) ==
    \E m, n \in 1..Len(column_mapping("TECHNICALS")) :
        /\ m < n
        /\ column_mapping("TECHNICALS")[m] = <<t[1], t[3]>>
        /\ column_mapping("TECHNICALS")[n] = <<t[2], t[3]>>
SharedTargetsInOrder == \A t \in SharedTargets : DeclaredInOrder(t)
C22_LaterHeaderWins ==
    /\ SharedTargetsInOrder
    /\ (pc = "defaults" /\ values.key = "TECHNICALS") =>
          \A t \in SharedTargets :
              (SheetHas(t[1]) /\ SheetHas(t[2])) =>
                  model_data[t[3]]
                      = transformed_value("TECHNICALS", t[3], TheRow[t[2]])

C22_Witness ==
    /\ pc = "defaults"
    /\ values.key = "TECHNICALS"
    /\ SheetHas("Gain") /\ SheetHas("Gain(14d)")
    /\ TheRow["Gain(14d)"] = Str(<<>>)
    /\ transformed_value("TECHNICALS", "gain_14d", TheRow["Gain"]) # None
    /\ model_data["gain_14d"] = None

(* C23: columns are located by exact header match only: a mapped header    *)
(* that does not occur exactly in the header row is absent, its target      *)
(* field is left out of the transformed record, and the absence itself      *)
(* produces no row-level error entry and (the column not being one the      *)
(* table requires) no domain-level error; sheet columns whose header is not *)
(* in the mapping are ignored.                                              *)
PresentTargets == {Mapping[n][2] : n \in {m \in 1..Len(Mapping) : SheetHas(Mapping[m][1])}}
RequiredPresent ==
    \A n \in 1..Len(BaseHeader(values.key)) : SheetHas(BaseHeader(values.key)[n])
DeclaredDefaults ==
    {<<"Indicator", "close_pivot", Dec(0, 0, 0 - 1)>>,
     <<"Indicator", "close_pivot_norm", Dec(0, 0, 0 - 1)>>,
     <<"Indicator", "macroeco_bonus", Dec(0, 0, 0 - 1)>>,
     <<"Indicator", "eco", Str(<<>>)>>,
     <<"PerformanceTracking", "limit", Str(<<>>)>>,
     <<"Technicals", "commodity_symbol", Str(<<"C", "C">>)>>,
     <<"Indicator", "commodity_symbol", Str(<<"C", "C">>)>>}
Lacks(data, f) == f \notin DOMAIN data \/ data[f] = None
TheModel == table_model(values.key)
C24_DefaultsPopulated ==
    /\ [][pc = "defaults" =>
            \A d \in DeclaredDefaults :
                (TheModel = d[1] /\ Lacks(model_data, d[2]))
                    => model_data'[d[2]] = d[3]]_vars
    /\ []((pc = "row_done" /\ TheModel \in {"Indicator", "PerformanceTracking"})
            => /\ stats.imported_rows = 1
               /\ stats.skipped_rows = 0
               /\ Len(session.new) = 1)
    /\ [](\A n \in 1..Len(session.new) :
            \A d \in DeclaredDefaults :
                table_model(session.new[n].key) = d[1] =>
                    /\ d[2] \in DOMAIN session.new[n].instance
                    /\ session.new[n].instance[d[2]] # None)

C24_Witness ==
    /\ pc = "row_done"
    /\ values.key = "INDICATOR"
    /\ ~SheetHas("MACROECO BONUS")
    /\ stats.imported_rows = 1
    /\ Len(session.new) = 1
    /\ session.new[1].instance["macroeco_bonus"] = Dec(0, 0, 0 - 1)
    /\ session.new[1].instance["close_pivot"] = TheRow["# CLOSE/PIVOT"]
    /\ session.new[1].instance["commodity_symbol"] = Str(<<"C", "C">>)

(* C25: in every catalog entry every transform name resolves to a function *)
(* of DataTransforms and every field that declares a transform is a target  *)
(* field of the entry's column mapping, so looking up a transform during    *)
(* row processing never fails: the mapping loop always runs to its end.     *)
CatalogTransformsResolve ==
    \A k \in AllKeys :
        \A p \in transforms(k) : p[2] \in DataTransforms /\ p[1] \in Targets(k)
C25_TransformsResolve ==
    /\ [](CatalogTransformsResolve)
    /\ [](pc = "map" =>
            \A n \in 1..Len(Mapping) :
                (SheetHas(Mapping[n][1]) /\ HasTransform(values.key, Mapping[n][2]))
                    => /\ TransformOf(values.key, Mapping[n][2]) \in DataTransforms
                       /\ transform_func(TransformOf(values.key, Mapping[n][2]),
                                         RawValue(TheRow[Mapping[n][1]])) # Raised)
    /\ [][pc = "map" => (pc' = "defaults" /\ stats' = stats)]_vars

C25_Witness ==
    /\ pc = "defaults"
    /\ values.key = "TECHNICALS"
    /\ SheetHas("MOYENNE DECALER") /\ SheetHas("ATR")
    /\ IsDatetime(model_data["timestamp"])
    /\ IsDec(model_data["close"])
    /\ IsDec(model_data["displaced_average"])
    /\ model_data["atr"] = None

(* C27: for every catalog entry, every target field of its column mapping  *)
(* is a declared field of the entry's table model, so a sheet that holds    *)
(* all mapped headers with valid values yields records that can be          *)
(* constructed; no mapped header, when present, causes the rows of the      *)
(* domain to be rejected.                                                   *)
TargetsDeclared(k) == Targets(k) \subseteq ModelFields(table_model(k))
C27_MappedTargetsAreModelFields ==
    /\ \A k \in AllKeys : TargetsDeclared(k)
    /\ (pc = "row_done" /\ TheRow = PlainRow(values.key, values.header)) =>
          /\ stats.imported_rows = 1
          /\ stats.errors = <<>>

(* C29: required-field defaulting changes only fields that are absent or   *)
(* null in the transformed record: a non-null value derived from the source *)
(* for close_pivot, close_pivot_norm, macroeco_bonus, eco, limit or         *)
(* commodity_symbol is never replaced by the default, and defaulting leaves *)
(* every other field of the record unchanged.                               *)
DefaultedFields(model) == {d[2] : d \in {dd \in DeclaredDefaults : dd[1] = model}}
C29_DefaultingFrame ==
    [][pc = "defaults" =>
          /\ DOMAIN model_data \subseteq DOMAIN model_data'
          /\ \A f \in DOMAIN model_data :
                (model_data[f] # None \/ f \notin DefaultedFields(TheModel))
                    => model_data'[f] = model_data[f]
          /\ \A f \in DOMAIN model_data' :
                f \notin DOMAIN model_data => f \in DefaultedFields(TheModel)]_vars

C29_Witness ==
    /\ pc = "create"
    /\ values.key = "INDICATOR"
    /\ SheetHas("ECO") /\ SheetHas("# CLOSE/PIVOT") /\ SheetHas("RSI SCORE")
    /\ TheRow["# CLOSE/PIVOT"] = Str(<<>>)
    /\ model_data["close_pivot"] = Dec(0, 0, 0 - 1)
    /\ model_data["eco"] = TheRow["ECO"]
    /\ model_data["rsi_score"] = TheRow["RSI SCORE"]

(* C26: for every domain whose import returned statistics, the row count   *)
(* the validation pass reports for the domain's table equals the domain's   *)
(* imported_rows; for a domain that was skipped or failed, the reported     *)
(* count equals the table's row count from before the run.                  *)
C26_ValidationMatchesStats ==
    pc = "validated" =>
        \A k \in KeySet :
            IF IsStats(results[k])
            THEN validation[k] = results[k].imported_rows
            ELSE validation[k] = Len(table0[k])

C26_Witness ==
    /\ pc = "validated"
    /\ \E a, b, c \in KeySet :
          /\ IsStats(results[a])
          /\ results[a].imported_rows = MaxRows
          /\ validation[a] = MaxRows
          /\ results[b] = Error("not_found")
          /\ results[c] = Error("raised")
          /\ table0[c] = <<OldRow(c)>>
          /\ validation[c] = 1

(* C28: in the statistics of every domain the number of error entries       *)
(* equals skipped_rows at every point of the row loop and at return, the    *)
(* entries are in ascending sheet-row order, and each entry names the       *)
(* spreadsheet row of the failing data row with the header as row 1 (data   *)
(* row index i, 0-based, is reported as row i + 2).                         *)
RECURSIVE RejectedRows(_, _, _, _)
RejectedRows(k, header, rows, n) ==
    IF n = 0 THEN <<>>
    ELSE RejectedRows(k, header, rows, n - 1)
         \o (IF model_instance(k, header, rows[n]) = Raised
             THEN <<[row |-> (n - 1) + 2]>> ELSE <<>>)
Ascending(errors) ==
    \A m, n \in 1..Len(errors) : m < n => errors[m].row < errors[n].row
C28_ErrorsMatchSkipped ==
    /\ [](pc = "rows" =>
            /\ Len(stats.errors) = stats.skipped_rows
            /\ Ascending(stats.errors)
            /\ stats.errors
                 = RejectedRows(mapping_key, values.header, values.rows, index))
    /\ [](\A k \in KeySet :
            IsStats(results[k]) =>
                /\ Len(results[k].errors) = results[k].skipped_rows
                /\ Ascending(results[k].errors))
    /\ [][ReturnsStats =>
            results'[mapping_key].errors
                = RejectedRows(mapping_key, values.header, values.rows,
                               Len(values.rows))]_vars

C28_Witness ==
    /\ pc = "done"
    /\ \E k \in KeySet :
          /\ IsStats(results[k])
          /\ results[k].skipped_rows = 2
          /\ results[k].errors[1] = [row |-> 2]
          /\ results[k].errors[2] = [row |-> 3]

(* C30: a domain's table is cleared only after its sheet was found, read    *)
(* successfully and returned at least a header row: when the sheet is       *)
(* missing, the read fails or the sheet returns no cells, the domain is     *)
(* reported as an error and its table keeps its previous contents, whereas  *)
(* a sheet with a header row and no data rows, on a session that accepts    *)
(* statements and a database that does not fail, is a successful import     *)
(* that empties the table and reports total_rows = 0, imported_rows = 0,    *)
(* skipped_rows = 0.                                                        *)
HeaderOnly ==
    values.key = mapping_key /\ Len(values.header) > 0 /\ values.rows = <<>>
NotCleared == {Error("not_found"), Error("read_failed"), Error("empty")}
C30_ClearOnlyAfterHeaderRead ==
    /\ [][\A k \in KeySet :
            ((<<"clear", k>> \in trace' /\ <<"clear", k>> \notin trace)
               \/ (k \in session'.deleted /\ k \notin session.deleted))
            => /\ pc = "clear"
               /\ k = mapping_key
               /\ sheet_name(k) \in available_sheets
               /\ <<"read", k>> \in trace
               /\ values.key = k
               /\ Len(values.header) > 0]_vars
    /\ [][(InLoop /\ pc' = "loop" /\ i' = i + 1)
            => /\ results'[mapping_key] \in NotCleared
               /\ table' = table
               /\ session' = session
               /\ <<"clear", mapping_key>> \notin trace']_vars
    /\ [](pc \in {"loop", "clear", "rows", "done"} =>
            \A k \in KeySet :
                results[k] \in NotCleared =>
                    table[k] = table0[k] /\ <<"clear", k>> \notin trace)
    /\ [][(pc = "clear" /\ HeaderOnly /\ session.usable /\ pc' # "crashed"
             /\ ~ClearFault)
            => pc' = "rows" /\ mapping_key \in session'.deleted]_vars
    /\ [][(pc = "rows" /\ HeaderOnly /\ pc' # "crashed" /\ ~CommitFault)
            => /\ results'[mapping_key]
                    = [sheet_name |-> sheet_name(mapping_key), total_rows |-> 0,
                       imported_rows |-> 0, skipped_rows |-> 0, errors |-> <<>>]
               /\ table'[mapping_key] = <<>>]_vars

C30_Witness ==
    /\ pc = "done"
    /\ \E k, j \in KeySet :
          /\ IsStats(results[k])
          /\ results[k].total_rows = 0
          /\ table0[k] = <<OldRow(k)>>
          /\ table[k] = <<>>
          /\ results[j] = Error("empty")
          /\ table[j] = <<OldRow(j)>>

=============================================================================
